---- MODULE Spec2Model ----
(***************************************************************************)
(* The extension <-> MIME-type registry of the mime-types-lite demo site   *)
(* and the two components that use it: MimeLookupDemo (file path or        *)
(* extension to MIME type) and ExtensionDemo (MIME type to extension),     *)
(* shown one at a time by the tabs of DemoPage.                            *)
(*                                                                         *)
(* Strings typed by the user are sequences of one-character strings, so    *)
(* that split('.'), pop() and toLowerCase() are computed character by      *)
(* character.  Property names and table entries are TLA+ strings; Join     *)
(* turns a character sequence into the property name it denotes.           *)
(***************************************************************************)
EXTENDS Integers, Sequences, FiniteSets, TLC

VARIABLES activeTab, MimeLookupDemo, ExtensionDemo, lastEvent,
          tableWrites, clipboard, timers,
          processEnv, envModule, lastCall,
          CodeBlock, InstallationTabs

\* The CodeBlock and the InstallationTabs of the home page.
widgetVars == <<CodeBlock, InstallationTabs>>

\* The pages and their components.
uiVars == <<activeTab, MimeLookupDemo, ExtensionDemo, lastEvent, tableWrites, clipboard,
            timers, CodeBlock, InstallationTabs>>

\* The environment configuration module.
envVars == <<processEnv, envModule, lastCall>>

vars == <<activeTab, MimeLookupDemo, ExtensionDemo, lastEvent,
          tableWrites, clipboard, timers, processEnv, envModule, lastCall,
          CodeBlock, InstallationTabs>>

(***************************************************************************)
(* Bounds.                                                                 *)
(***************************************************************************)
\* Number of "a.b/" directory segments put in front of a file name.
MaxSegments == 1

\* Number of reset timers of the copy buttons that may be pending at once.
MaxTimers == 2

(***************************************************************************)
(* JavaScript values.  A value is a record [kind, val]; null and undefined *)
(* are distinct values, and the members every object inherits from         *)
(* Object.prototype are values that are neither strings nor null.          *)
(***************************************************************************)
Str(s) == [kind |-> "string", val |-> s]

null == [kind |-> "null", val |-> ""]

undefined == [kind |-> "undefined", val |-> ""]

\* The own properties of Object.prototype: what obj[name] yields for an
\* object that has no own property of that name.
ObjectPrototype ==
    [ name \in { "constructor", "hasOwnProperty", "isPrototypeOf",
                 "propertyIsEnumerable", "toLocaleString", "toString",
                 "valueOf", "__defineGetter__", "__defineSetter__",
                 "__lookupGetter__", "__lookupSetter__" }
        |-> [kind |-> "function", val |-> name] ]
    @@ ("__proto__" :> [kind |-> "object", val |-> "Object.prototype"])

\* JavaScript truthiness: undefined, null and the empty string are falsy.
Truthy(v) == /\ v.kind \notin {"null", "undefined"}
             /\ ~(v.kind = "string" /\ v.val = "")

\* a || b
Or(a, b) == IF Truthy(a) THEN a ELSE b

\* An object is [keys, val]: its own property names in insertion order and
\* their values.  {} is the empty object; its prototype is Object.prototype.
EmptyObject == [keys |-> <<>>, val |-> <<>>]

HasOwn(obj, name) == \E i \in 1..Len(obj.keys) : obj.keys[i] = name

IndexOf(obj, name) == CHOOSE i \in 1..Len(obj.keys) : obj.keys[i] = name

\* obj[name]: the own property, else the inherited member, else undefined.
Get(obj, name) ==
    IF HasOwn(obj, name) THEN obj.val[IndexOf(obj, name)]
    ELSE IF name \in DOMAIN ObjectPrototype THEN ObjectPrototype[name]
    ELSE undefined

\* obj[name] = v: a new name is appended, an existing one keeps its place.
\* (Assignment to __proto__ sets the prototype, not an own property; no
\* table key is "__proto__".)
Put(obj, name, v) ==
    IF HasOwn(obj, name)
    THEN [obj EXCEPT !.val[IndexOf(obj, name)] = v]
    ELSE [keys |-> Append(obj.keys, name), val |-> Append(obj.val, v)]

\* Object.entries(obj): the [name, value] pairs in insertion order (no key
\* of the tables is an integer index, which would be listed first).
ObjectEntries(obj) == [i \in 1..Len(obj.keys) |-> <<obj.keys[i], obj.val[i]>>]

\* The object denoted by an object literal { k1: v1, k2: v2, ... }: the
\* properties are defined in source order, a repeated name replacing the
\* earlier value.  (The test next = next only makes TLC evaluate the
\* object before the next property is defined.)
RECURSIVE DefineProperties(_, _, _)
DefineProperties(props, i, acc) ==
    IF i > Len(props) THEN acc
    ELSE LET next == Put(acc, props[i][1], Str(props[i][2]))
         IN  IF next = next THEN DefineProperties(props, i + 1, next) ELSE next

ObjectLiteral(props) == DefineProperties(props, 1, EmptyObject)

OwnKeys(obj) == {obj.keys[i] : i \in 1..Len(obj.keys)}

OwnValues(obj) == {obj.val[i] : i \in 1..Len(obj.val)}

(***************************************************************************)
(* The default export of the mime-types-lite package (an npm dependency;   *)
(* the demo documents the values of HTML, CSS, JS, PNG, PDF and JSON).     *)
(***************************************************************************)
mimeTypesLite ==
    [ EPUB |-> "application/epub+zip",
      TEX |-> "application/x-tex",
      PPT |-> "application/vnd.ms-powerpoint",
      PPTX |-> "application/vnd.openxmlformats-officedocument.presentationml.presentation",
      ODT |-> "application/vnd.oasis.opendocument.text",
      ODS |-> "application/vnd.oasis.opendocument.spreadsheet",
      RTF |-> "application/rtf",
      DOC |-> "application/msword",
      DOCX |-> "application/vnd.openxmlformats-officedocument.wordprocessingml.document",
      XLS |-> "application/vnd.ms-excel",
      XLSX |-> "application/vnd.openxmlformats-officedocument.spreadsheetml.sheet",
      PDF |-> "application/pdf",
      MD |-> "text/markdown",
      TXT |-> "text/plain",
      CSV |-> "text/csv",
      XCF |-> "image/x-xcf",
      PSD |-> "image/vnd.adobe.photoshop",
      JP2 |-> "image/jp2",
      AVIF |-> "image/avif",
      HEIC |-> "image/heic",
      WEBP |-> "image/webp",
      JPG |-> "image/jpeg",
      JPEG |-> "image/jpeg",
      PNG |-> "image/png",
      ICO |-> "image/x-icon",
      GIF |-> "image/gif",
      BMP |-> "image/bmp",
      TIFF |-> "image/tiff",
      SVG |-> "image/svg+xml",
      MKV |-> "video/x-matroska",
      FLV |-> "video/x-flv",
      WMV |-> "video/x-ms-wmv",
      MOV |-> "video/quicktime",
      WEBM |-> "video/webm",
      AVI |-> "video/x-msvideo",
      MPEG |-> "video/mpeg",
      MP4 |-> "video/mp4",
      AMR |-> "audio/amr",
      MIDI |-> "audio/midi",
      FLAC |-> "audio/flac",
      OGG |-> "audio/ogg",
      AAC |-> "audio/aac",
      MP3 |-> "audio/mpeg",
      WAV |-> "audio/wav",
      TAR |-> "application/x-tar",
      GZ |-> "application/gzip",
      SEVEN_ZIP |-> "application/x-7z-compressed",
      ZIP |-> "application/zip",
      RAR |-> "application/vnd.rar",
      BZ2 |-> "application/x-bzip2",
      ICS |-> "text/calendar",
      ATOM |-> "application/atom+xml",
      RSS |-> "application/rss+xml",
      WASM |-> "application/wasm",
      YAML |-> "application/x-yaml",
      GRAPHQL |-> "application/graphql",
      JSON |-> "application/json",
      XML |-> "application/xml",
      JS |-> "application/javascript",
      CSS |-> "text/css",
      HTML |-> "text/html",
      WOFF |-> "font/woff",
      WOFF2 |-> "font/woff2",
      TTF |-> "font/ttf",
      OTF |-> "font/otf" ]

(***************************************************************************)
(* The forward table and the derivation of the inverse table.  Both are    *)
(* module-level constants, built once when the module is loaded; no        *)
(* statement of the program assigns to them or to their properties.        *)
(***************************************************************************)
\* A variant of the literal in which the entry of 'mp3' is keyed 'mp4', a key
\* defined earlier.
extensionToMimeLiteral_RepeatedKey ==
    << <<"epub", mimeTypesLite.EPUB>>,
       <<"tex", mimeTypesLite.TEX>>,
       <<"ppt", mimeTypesLite.PPT>>,
       <<"pptx", mimeTypesLite.PPTX>>,
       <<"odt", mimeTypesLite.ODT>>,
       <<"ods", mimeTypesLite.ODS>>,
       <<"rtf", mimeTypesLite.RTF>>,
       <<"doc", mimeTypesLite.DOC>>,
       <<"docx", mimeTypesLite.DOCX>>,
       <<"xls", mimeTypesLite.XLS>>,
       <<"xlsx", mimeTypesLite.XLSX>>,
       <<"pdf", mimeTypesLite.PDF>>,
       <<"md", mimeTypesLite.MD>>,
       <<"txt", mimeTypesLite.TXT>>,
       <<"csv", mimeTypesLite.CSV>>,
       <<"xcf", mimeTypesLite.XCF>>,
       <<"psd", mimeTypesLite.PSD>>,
       <<"jp2", mimeTypesLite.JP2>>,
       <<"avif", mimeTypesLite.AVIF>>,
       <<"heic", mimeTypesLite.HEIC>>,
       <<"webp", mimeTypesLite.WEBP>>,
       <<"jpg", mimeTypesLite.JPG>>,
       <<"jpeg", mimeTypesLite.JPEG>>,
       <<"png", mimeTypesLite.PNG>>,
       <<"ico", mimeTypesLite.ICO>>,
       <<"gif", mimeTypesLite.GIF>>,
       <<"bmp", mimeTypesLite.BMP>>,
       <<"tiff", mimeTypesLite.TIFF>>,
       <<"svg", mimeTypesLite.SVG>>,
       <<"mkv", mimeTypesLite.MKV>>,
       <<"flv", mimeTypesLite.FLV>>,
       <<"wmv", mimeTypesLite.WMV>>,
       <<"mov", mimeTypesLite.MOV>>,
       <<"webm", mimeTypesLite.WEBM>>,
       <<"avi", mimeTypesLite.AVI>>,
       <<"mpeg", mimeTypesLite.MPEG>>,
       <<"mp4", mimeTypesLite.MP4>>,
       <<"amr", mimeTypesLite.AMR>>,
       <<"midi", mimeTypesLite.MIDI>>,
       <<"flac", mimeTypesLite.FLAC>>,
       <<"ogg", mimeTypesLite.OGG>>,
       <<"aac", mimeTypesLite.AAC>>,
       <<"mp4", mimeTypesLite.MP3>>,
       <<"wav", mimeTypesLite.WAV>>,
       <<"tar", mimeTypesLite.TAR>>,
       <<"gz", mimeTypesLite.GZ>>,
       <<"7z", mimeTypesLite.SEVEN_ZIP>>,
       <<"zip", mimeTypesLite.ZIP>>,
       <<"rar", mimeTypesLite.RAR>>,
       <<"bz2", mimeTypesLite.BZ2>>,
       <<"ics", mimeTypesLite.ICS>>,
       <<"atom", mimeTypesLite.ATOM>>,
       <<"rss", mimeTypesLite.RSS>>,
       <<"wasm", mimeTypesLite.WASM>>,
       <<"yaml", mimeTypesLite.YAML>>,
       <<"yml", mimeTypesLite.YAML>>,
       <<"graphql", mimeTypesLite.GRAPHQL>>,
       <<"json", mimeTypesLite.JSON>>,
       <<"xml", mimeTypesLite.XML>>,
       <<"js", mimeTypesLite.JS>>,
       <<"css", mimeTypesLite.CSS>>,
       <<"html", mimeTypesLite.HTML>>,
       <<"woff", mimeTypesLite.WOFF>>,
       <<"woff2", mimeTypesLite.WOFF2>>,
       <<"ttf", mimeTypesLite.TTF>>,
       <<"otf", mimeTypesLite.OTF>> >>

\* const extensionToMime = { ... }: the properties of the literal, in source
\* order.
extensionToMimeLiteral ==
    << <<"epub", mimeTypesLite.EPUB>>,
       <<"tex", mimeTypesLite.TEX>>,
       <<"ppt", mimeTypesLite.PPT>>,
       <<"pptx", mimeTypesLite.PPTX>>,
       <<"odt", mimeTypesLite.ODT>>,
       <<"ods", mimeTypesLite.ODS>>,
       <<"rtf", mimeTypesLite.RTF>>,
       <<"doc", mimeTypesLite.DOC>>,
       <<"docx", mimeTypesLite.DOCX>>,
       <<"xls", mimeTypesLite.XLS>>,
       <<"xlsx", mimeTypesLite.XLSX>>,
       <<"pdf", mimeTypesLite.PDF>>,
       <<"md", mimeTypesLite.MD>>,
       <<"txt", mimeTypesLite.TXT>>,
       <<"csv", mimeTypesLite.CSV>>,
       <<"xcf", mimeTypesLite.XCF>>,
       <<"psd", mimeTypesLite.PSD>>,
       <<"jp2", mimeTypesLite.JP2>>,
       <<"avif", mimeTypesLite.AVIF>>,
       <<"heic", mimeTypesLite.HEIC>>,
       <<"webp", mimeTypesLite.WEBP>>,
       <<"jpg", mimeTypesLite.JPG>>,
       <<"jpeg", mimeTypesLite.JPEG>>,
       <<"png", mimeTypesLite.PNG>>,
       <<"ico", mimeTypesLite.ICO>>,
       <<"gif", mimeTypesLite.GIF>>,
       <<"bmp", mimeTypesLite.BMP>>,
       <<"tiff", mimeTypesLite.TIFF>>,
       <<"svg", mimeTypesLite.SVG>>,
       <<"mkv", mimeTypesLite.MKV>>,
       <<"flv", mimeTypesLite.FLV>>,
       <<"wmv", mimeTypesLite.WMV>>,
       <<"mov", mimeTypesLite.MOV>>,
       <<"webm", mimeTypesLite.WEBM>>,
       <<"avi", mimeTypesLite.AVI>>,
       <<"mpeg", mimeTypesLite.MPEG>>,
       <<"mp4", mimeTypesLite.MP4>>,
       <<"amr", mimeTypesLite.AMR>>,
       <<"midi", mimeTypesLite.MIDI>>,
       <<"flac", mimeTypesLite.FLAC>>,
       <<"ogg", mimeTypesLite.OGG>>,
       <<"aac", mimeTypesLite.AAC>>,
       <<"mp3", mimeTypesLite.MP3>>,
       <<"wav", mimeTypesLite.WAV>>,
       <<"tar", mimeTypesLite.TAR>>,
       <<"gz", mimeTypesLite.GZ>>,
       <<"7z", mimeTypesLite.SEVEN_ZIP>>,
       <<"zip", mimeTypesLite.ZIP>>,
       <<"rar", mimeTypesLite.RAR>>,
       <<"bz2", mimeTypesLite.BZ2>>,
       <<"ics", mimeTypesLite.ICS>>,
       <<"atom", mimeTypesLite.ATOM>>,
       <<"rss", mimeTypesLite.RSS>>,
       <<"wasm", mimeTypesLite.WASM>>,
       <<"yaml", mimeTypesLite.YAML>>,
       <<"yml", mimeTypesLite.YAML>>,
       <<"graphql", mimeTypesLite.GRAPHQL>>,
       <<"json", mimeTypesLite.JSON>>,
       <<"xml", mimeTypesLite.XML>>,
       <<"js", mimeTypesLite.JS>>,
       <<"css", mimeTypesLite.CSS>>,
       <<"html", mimeTypesLite.HTML>>,
       <<"woff", mimeTypesLite.WOFF>>,
       <<"woff2", mimeTypesLite.WOFF2>>,
       <<"ttf", mimeTypesLite.TTF>>,
       <<"otf", mimeTypesLite.OTF>> >>

\* Variants of the reducer with a slip in it: the later extension replaces
\* the stored one; the entry is stored under the extension; the MIME type
\* is stored as its own extension.
Reducer_LastWins(acc, entry) == Put(acc, entry[2].val, Str(entry[1]))

Reducer_SwappedKeys(acc, entry) ==
    IF ~Truthy(Get(acc, entry[1])) THEN Put(acc, entry[1], entry[2]) ELSE acc

Reducer_StoresMime(acc, entry) ==
    IF ~Truthy(Get(acc, entry[2].val)) THEN Put(acc, entry[2].val, entry[2]) ELSE acc

\* The reducer of mimeToExtension: keep the extension already stored.
Reducer(acc, entry) ==
    LET ext  == entry[1]
        mime == entry[2].val
    IN  IF ~Truthy(Get(acc, mime)) THEN Put(acc, mime, Str(ext)) ELSE acc

\* Array.prototype.reduce(callback, initial): the callback is applied to
\* the entries from left to right, each call receiving the accumulator the
\* call before returned.
RECURSIVE ReduceFrom(_, _, _)
ReduceFrom(entries, i, acc) ==
    IF i > Len(entries) THEN acc
    ELSE LET next == Reducer(acc, entries[i])
         IN  IF next = next THEN ReduceFrom(entries, i + 1, next) ELSE next

Reduce(entries, initial) == ReduceFrom(entries, 1, initial)

extensionToMime == ObjectLiteral(extensionToMimeLiteral)

mimeToExtension == Reduce(ObjectEntries(extensionToMime), EmptyObject)

\* The two definitions above are the tables as the module load builds
\* them.  tableWrites lists the assignments made to their properties since
\* then (records [table, name, value], oldest first); Current is the object
\* a handler finds when it reads a table.
RECURSIVE ApplyWrites(_, _, _)
ApplyWrites(obj, table, writes) ==
    IF Len(writes) = 0 THEN obj
    ELSE LET w == Head(writes)
         IN  ApplyWrites(IF w.table = table THEN Put(obj, w.name, w.value) ELSE obj,
                         table, Tail(writes))

CurrentExtensionToMime == ApplyWrites(extensionToMime, "extensionToMime", tableWrites)

CurrentMimeToExtension == ApplyWrites(mimeToExtension, "mimeToExtension", tableWrites)

(***************************************************************************)
(* Strings as character sequences.                                         *)
(***************************************************************************)
UpperCaseLetters ==
    << "A", "B", "C", "D", "E", "F", "G", "H", "I", "J", "K", "L", "M",
       "N", "O", "P", "Q", "R", "S", "T", "U", "V", "W", "X", "Y", "Z" >>

LowerCaseLetters ==
    << "a", "b", "c", "d", "e", "f", "g", "h", "i", "j", "k", "l", "m",
       "n", "o", "p", "q", "r", "s", "t", "u", "v", "w", "x", "y", "z" >>

LowerChar(c) ==
    IF \E i \in 1..26 : UpperCaseLetters[i] = c
    THEN LowerCaseLetters[CHOOSE i \in 1..26 : UpperCaseLetters[i] = c]
    ELSE c

UpperChar(c) ==
    IF \E i \in 1..26 : LowerCaseLetters[i] = c
    THEN UpperCaseLetters[CHOOSE i \in 1..26 : LowerCaseLetters[i] = c]
    ELSE c

\* String.prototype.toLowerCase / toUpperCase
toLowerCase(s) == [i \in 1..Len(s) |-> LowerChar(s[i])]

toUpperCase(s) == [i \in 1..Len(s) |-> UpperChar(s[i])]

\* The property name a character sequence denotes.
RECURSIVE Join(_)
Join(s) == IF Len(s) = 0 THEN "" ELSE Head(s) \o Join(Tail(s))

\* A variant that cuts at the first '.' instead of the last.
SplitPop_FirstDot(s) ==
    IF \E i \in 1..Len(s) : s[i] = "."
    THEN LET first == CHOOSE i \in 1..Len(s) :
                         /\ s[i] = "."
                         /\ \A j \in 1..(i - 1) : s[j] # "."
         IN  SubSeq(s, first + 1, Len(s))
    ELSE s

\* s.split('.').pop(): the characters after the last '.', or all of s.
SplitPop(s) ==
    IF \E i \in 1..Len(s) : s[i] = "."
    THEN LET last == CHOOSE i \in 1..Len(s) :
                        /\ s[i] = "."
                        /\ \A j \in (i + 1)..Len(s) : s[j] # "."
         IN  SubSeq(s, last + 1, Len(s))
    ELSE s

\* The characters of the strings of the tables.
Spelling ==
    "epub" :> <<"e", "p", "u", "b">> @@
    "tex" :> <<"t", "e", "x">> @@
    "ppt" :> <<"p", "p", "t">> @@
    "pptx" :> <<"p", "p", "t", "x">> @@
    "odt" :> <<"o", "d", "t">> @@
    "ods" :> <<"o", "d", "s">> @@
    "rtf" :> <<"r", "t", "f">> @@
    "doc" :> <<"d", "o", "c">> @@
    "docx" :> <<"d", "o", "c", "x">> @@
    "xls" :> <<"x", "l", "s">> @@
    "xlsx" :> <<"x", "l", "s", "x">> @@
    "pdf" :> <<"p", "d", "f">> @@
    "md" :> <<"m", "d">> @@
    "txt" :> <<"t", "x", "t">> @@
    "csv" :> <<"c", "s", "v">> @@
    "xcf" :> <<"x", "c", "f">> @@
    "psd" :> <<"p", "s", "d">> @@
    "jp2" :> <<"j", "p", "2">> @@
    "avif" :> <<"a", "v", "i", "f">> @@
    "heic" :> <<"h", "e", "i", "c">> @@
    "webp" :> <<"w", "e", "b", "p">> @@
    "jpg" :> <<"j", "p", "g">> @@
    "jpeg" :> <<"j", "p", "e", "g">> @@
    "png" :> <<"p", "n", "g">> @@
    "ico" :> <<"i", "c", "o">> @@
    "gif" :> <<"g", "i", "f">> @@
    "bmp" :> <<"b", "m", "p">> @@
    "tiff" :> <<"t", "i", "f", "f">> @@
    "svg" :> <<"s", "v", "g">> @@
    "mkv" :> <<"m", "k", "v">> @@
    "flv" :> <<"f", "l", "v">> @@
    "wmv" :> <<"w", "m", "v">> @@
    "mov" :> <<"m", "o", "v">> @@
    "webm" :> <<"w", "e", "b", "m">> @@
    "avi" :> <<"a", "v", "i">> @@
    "mpeg" :> <<"m", "p", "e", "g">> @@
    "mp4" :> <<"m", "p", "4">> @@
    "amr" :> <<"a", "m", "r">> @@
    "midi" :> <<"m", "i", "d", "i">> @@
    "flac" :> <<"f", "l", "a", "c">> @@
    "ogg" :> <<"o", "g", "g">> @@
    "aac" :> <<"a", "a", "c">> @@
    "mp3" :> <<"m", "p", "3">> @@
    "wav" :> <<"w", "a", "v">> @@
    "tar" :> <<"t", "a", "r">> @@
    "gz" :> <<"g", "z">> @@
    "7z" :> <<"7", "z">> @@
    "zip" :> <<"z", "i", "p">> @@
    "rar" :> <<"r", "a", "r">> @@
    "bz2" :> <<"b", "z", "2">> @@
    "ics" :> <<"i", "c", "s">> @@
    "atom" :> <<"a", "t", "o", "m">> @@
    "rss" :> <<"r", "s", "s">> @@
    "wasm" :> <<"w", "a", "s", "m">> @@
    "yaml" :> <<"y", "a", "m", "l">> @@
    "yml" :> <<"y", "m", "l">> @@
    "graphql" :> <<"g", "r", "a", "p", "h", "q", "l">> @@
    "json" :> <<"j", "s", "o", "n">> @@
    "xml" :> <<"x", "m", "l">> @@
    "js" :> <<"j", "s">> @@
    "css" :> <<"c", "s", "s">> @@
    "html" :> <<"h", "t", "m", "l">> @@
    "woff" :> <<"w", "o", "f", "f">> @@
    "woff2" :> <<"w", "o", "f", "f", "2">> @@
    "ttf" :> <<"t", "t", "f">> @@
    "otf" :> <<"o", "t", "f">> @@
    "application/epub+zip" :> <<"a", "p", "p", "l", "i", "c", "a", "t", "i", "o", "n", "/", "e", "p", "u", "b", "+", "z", "i", "p">> @@
    "application/x-tex" :> <<"a", "p", "p", "l", "i", "c", "a", "t", "i", "o", "n", "/", "x", "-", "t", "e", "x">> @@
    "application/vnd.ms-powerpoint" :> <<"a", "p", "p", "l", "i", "c", "a", "t", "i", "o", "n", "/", "v", "n", "d", ".", "m", "s", "-", "p", "o", "w", "e", "r", "p", "o", "i", "n", "t">> @@
    "application/vnd.openxmlformats-officedocument.presentationml.presentation" :> <<"a", "p", "p", "l", "i", "c", "a", "t", "i", "o", "n", "/", "v", "n", "d", ".", "o", "p", "e", "n", "x", "m", "l", "f", "o", "r", "m", "a", "t", "s", "-", "o", "f", "f", "i", "c", "e", "d", "o", "c", "u", "m", "e", "n", "t", ".", "p", "r", "e", "s", "e", "n", "t", "a", "t", "i", "o", "n", "m", "l", ".", "p", "r", "e", "s", "e", "n", "t", "a", "t", "i", "o", "n">> @@
    "application/vnd.oasis.opendocument.text" :> <<"a", "p", "p", "l", "i", "c", "a", "t", "i", "o", "n", "/", "v", "n", "d", ".", "o", "a", "s", "i", "s", ".", "o", "p", "e", "n", "d", "o", "c", "u", "m", "e", "n", "t", ".", "t", "e", "x", "t">> @@
    "application/vnd.oasis.opendocument.spreadsheet" :> <<"a", "p", "p", "l", "i", "c", "a", "t", "i", "o", "n", "/", "v", "n", "d", ".", "o", "a", "s", "i", "s", ".", "o", "p", "e", "n", "d", "o", "c", "u", "m", "e", "n", "t", ".", "s", "p", "r", "e", "a", "d", "s", "h", "e", "e", "t">> @@
    "application/rtf" :> <<"a", "p", "p", "l", "i", "c", "a", "t", "i", "o", "n", "/", "r", "t", "f">> @@
    "application/msword" :> <<"a", "p", "p", "l", "i", "c", "a", "t", "i", "o", "n", "/", "m", "s", "w", "o", "r", "d">> @@
    "application/vnd.openxmlformats-officedocument.wordprocessingml.document" :> <<"a", "p", "p", "l", "i", "c", "a", "t", "i", "o", "n", "/", "v", "n", "d", ".", "o", "p", "e", "n", "x", "m", "l", "f", "o", "r", "m", "a", "t", "s", "-", "o", "f", "f", "i", "c", "e", "d", "o", "c", "u", "m", "e", "n", "t", ".", "w", "o", "r", "d", "p", "r", "o", "c", "e", "s", "s", "i", "n", "g", "m", "l", ".", "d", "o", "c", "u", "m", "e", "n", "t">> @@
    "application/vnd.ms-excel" :> <<"a", "p", "p", "l", "i", "c", "a", "t", "i", "o", "n", "/", "v", "n", "d", ".", "m", "s", "-", "e", "x", "c", "e", "l">> @@
    "application/vnd.openxmlformats-officedocument.spreadsheetml.sheet" :> <<"a", "p", "p", "l", "i", "c", "a", "t", "i", "o", "n", "/", "v", "n", "d", ".", "o", "p", "e", "n", "x", "m", "l", "f", "o", "r", "m", "a", "t", "s", "-", "o", "f", "f", "i", "c", "e", "d", "o", "c", "u", "m", "e", "n", "t", ".", "s", "p", "r", "e", "a", "d", "s", "h", "e", "e", "t", "m", "l", ".", "s", "h", "e", "e", "t">> @@
    "application/pdf" :> <<"a", "p", "p", "l", "i", "c", "a", "t", "i", "o", "n", "/", "p", "d", "f">> @@
    "text/markdown" :> <<"t", "e", "x", "t", "/", "m", "a", "r", "k", "d", "o", "w", "n">> @@
    "text/plain" :> <<"t", "e", "x", "t", "/", "p", "l", "a", "i", "n">> @@
    "text/csv" :> <<"t", "e", "x", "t", "/", "c", "s", "v">> @@
    "image/x-xcf" :> <<"i", "m", "a", "g", "e", "/", "x", "-", "x", "c", "f">> @@
    "image/vnd.adobe.photoshop" :> <<"i", "m", "a", "g", "e", "/", "v", "n", "d", ".", "a", "d", "o", "b", "e", ".", "p", "h", "o", "t", "o", "s", "h", "o", "p">> @@
    "image/jp2" :> <<"i", "m", "a", "g", "e", "/", "j", "p", "2">> @@
    "image/avif" :> <<"i", "m", "a", "g", "e", "/", "a", "v", "i", "f">> @@
    "image/heic" :> <<"i", "m", "a", "g", "e", "/", "h", "e", "i", "c">> @@
    "image/webp" :> <<"i", "m", "a", "g", "e", "/", "w", "e", "b", "p">> @@
    "image/jpeg" :> <<"i", "m", "a", "g", "e", "/", "j", "p", "e", "g">> @@
    "image/png" :> <<"i", "m", "a", "g", "e", "/", "p", "n", "g">> @@
    "image/x-icon" :> <<"i", "m", "a", "g", "e", "/", "x", "-", "i", "c", "o", "n">> @@
    "image/gif" :> <<"i", "m", "a", "g", "e", "/", "g", "i", "f">> @@
    "image/bmp" :> <<"i", "m", "a", "g", "e", "/", "b", "m", "p">> @@
    "image/tiff" :> <<"i", "m", "a", "g", "e", "/", "t", "i", "f", "f">> @@
    "image/svg+xml" :> <<"i", "m", "a", "g", "e", "/", "s", "v", "g", "+", "x", "m", "l">> @@
    "video/x-matroska" :> <<"v", "i", "d", "e", "o", "/", "x", "-", "m", "a", "t", "r", "o", "s", "k", "a">> @@
    "video/x-flv" :> <<"v", "i", "d", "e", "o", "/", "x", "-", "f", "l", "v">> @@
    "video/x-ms-wmv" :> <<"v", "i", "d", "e", "o", "/", "x", "-", "m", "s", "-", "w", "m", "v">> @@
    "video/quicktime" :> <<"v", "i", "d", "e", "o", "/", "q", "u", "i", "c", "k", "t", "i", "m", "e">> @@
    "video/webm" :> <<"v", "i", "d", "e", "o", "/", "w", "e", "b", "m">> @@
    "video/x-msvideo" :> <<"v", "i", "d", "e", "o", "/", "x", "-", "m", "s", "v", "i", "d", "e", "o">> @@
    "video/mpeg" :> <<"v", "i", "d", "e", "o", "/", "m", "p", "e", "g">> @@
    "video/mp4" :> <<"v", "i", "d", "e", "o", "/", "m", "p", "4">> @@
    "audio/amr" :> <<"a", "u", "d", "i", "o", "/", "a", "m", "r">> @@
    "audio/midi" :> <<"a", "u", "d", "i", "o", "/", "m", "i", "d", "i">> @@
    "audio/flac" :> <<"a", "u", "d", "i", "o", "/", "f", "l", "a", "c">> @@
    "audio/ogg" :> <<"a", "u", "d", "i", "o", "/", "o", "g", "g">> @@
    "audio/aac" :> <<"a", "u", "d", "i", "o", "/", "a", "a", "c">> @@
    "audio/mpeg" :> <<"a", "u", "d", "i", "o", "/", "m", "p", "e", "g">> @@
    "audio/wav" :> <<"a", "u", "d", "i", "o", "/", "w", "a", "v">> @@
    "application/x-tar" :> <<"a", "p", "p", "l", "i", "c", "a", "t", "i", "o", "n", "/", "x", "-", "t", "a", "r">> @@
    "application/gzip" :> <<"a", "p", "p", "l", "i", "c", "a", "t", "i", "o", "n", "/", "g", "z", "i", "p">> @@
    "application/x-7z-compressed" :> <<"a", "p", "p", "l", "i", "c", "a", "t", "i", "o", "n", "/", "x", "-", "7", "z", "-", "c", "o", "m", "p", "r", "e", "s", "s", "e", "d">> @@
    "application/zip" :> <<"a", "p", "p", "l", "i", "c", "a", "t", "i", "o", "n", "/", "z", "i", "p">> @@
    "application/vnd.rar" :> <<"a", "p", "p", "l", "i", "c", "a", "t", "i", "o", "n", "/", "v", "n", "d", ".", "r", "a", "r">> @@
    "application/x-bzip2" :> <<"a", "p", "p", "l", "i", "c", "a", "t", "i", "o", "n", "/", "x", "-", "b", "z", "i", "p", "2">> @@
    "text/calendar" :> <<"t", "e", "x", "t", "/", "c", "a", "l", "e", "n", "d", "a", "r">> @@
    "application/atom+xml" :> <<"a", "p", "p", "l", "i", "c", "a", "t", "i", "o", "n", "/", "a", "t", "o", "m", "+", "x", "m", "l">> @@
    "application/rss+xml" :> <<"a", "p", "p", "l", "i", "c", "a", "t", "i", "o", "n", "/", "r", "s", "s", "+", "x", "m", "l">> @@
    "application/wasm" :> <<"a", "p", "p", "l", "i", "c", "a", "t", "i", "o", "n", "/", "w", "a", "s", "m">> @@
    "application/x-yaml" :> <<"a", "p", "p", "l", "i", "c", "a", "t", "i", "o", "n", "/", "x", "-", "y", "a", "m", "l">> @@
    "application/graphql" :> <<"a", "p", "p", "l", "i", "c", "a", "t", "i", "o", "n", "/", "g", "r", "a", "p", "h", "q", "l">> @@
    "application/json" :> <<"a", "p", "p", "l", "i", "c", "a", "t", "i", "o", "n", "/", "j", "s", "o", "n">> @@
    "application/xml" :> <<"a", "p", "p", "l", "i", "c", "a", "t", "i", "o", "n", "/", "x", "m", "l">> @@
    "application/javascript" :> <<"a", "p", "p", "l", "i", "c", "a", "t", "i", "o", "n", "/", "j", "a", "v", "a", "s", "c", "r", "i", "p", "t">> @@
    "text/css" :> <<"t", "e", "x", "t", "/", "c", "s", "s">> @@
    "text/html" :> <<"t", "e", "x", "t", "/", "h", "t", "m", "l">> @@
    "font/woff" :> <<"f", "o", "n", "t", "/", "w", "o", "f", "f">> @@
    "font/woff2" :> <<"f", "o", "n", "t", "/", "w", "o", "f", "f", "2">> @@
    "font/ttf" :> <<"f", "o", "n", "t", "/", "t", "t", "f">> @@
    "font/otf" :> <<"f", "o", "n", "t", "/", "o", "t", "f">>

Chars(s) == Spelling[s]

(***************************************************************************)
(* The lookups.                                                            *)
(***************************************************************************)
\* Variants of the lookups with a slip in them: the candidate is not
\* lower-cased; the miss is not turned into null.
LookupMimeType_NoLowerCase(filePath) ==
    Or(Get(CurrentExtensionToMime, Join(SplitPop(filePath))), null)

LookupMimeType_NoNullDefault(filePath) ==
    Get(CurrentExtensionToMime, Join(toLowerCase(SplitPop(filePath))))

LookupExtension_NoLowerCase(mimeType) ==
    Or(Get(CurrentMimeToExtension, Join(mimeType)), null)

\* MimeLookupDemo.handleLookup: the value passed to setResult.
LookupMimeType(filePath) ==
    LET ext == Join(toLowerCase(SplitPop(filePath)))
    IN  Or(Get(CurrentExtensionToMime, ext), null)

\* ExtensionDemo.handleLookup: the value passed to setResult.
LookupExtension(mimeType) ==
    Or(Get(CurrentMimeToExtension, Join(toLowerCase(mimeType))), null)

\* A variant of the example click that reads the forward table.
LookupExtensionExact_ForwardTable(example) ==
    Or(Get(CurrentExtensionToMime, Join(example)), null)

\* The example click of ExtensionDemo reads the table without lower-casing.
LookupExtensionExact(example) == Or(Get(CurrentMimeToExtension, Join(example)), null)

\* The assignments the handlers make to properties of the tables: none, the
\* handlers only read extensionToMime[ext] and mimeToExtension[...].  (The
\* variant stores the looked-up value back under the candidate.)
MimeLookupTableWrites_StoresResult(filePath) ==
    << [table |-> "extensionToMime",
        name  |-> Join(toLowerCase(SplitPop(filePath))),
        value |-> LookupMimeType(filePath)] >>

MimeLookupTableWrites(filePath) == <<>>

\* A variant that remembers a type it did not find, under the extension
\* 'bin'.
ExtensionTableWrites_RemembersMiss(mimeType) ==
    IF LookupExtension(mimeType) = null
    THEN << [table |-> "mimeToExtension",
             name  |-> Join(toLowerCase(mimeType)),
             value |-> Str("bin")] >>
    ELSE <<>>

ExtensionTableWrites(mimeType) == <<>>

MimeLookupExamples ==
    { <<"i", "n", "d", "e", "x", ".", "h", "t", "m", "l">>,
      <<"s", "t", "y", "l", "e", "s", ".", "c", "s", "s">>,
      <<"a", "p", "p", ".", "j", "s">>,
      <<"i", "m", "a", "g", "e", ".", "p", "n", "g">>,
      <<"d", "o", "c", "u", "m", "e", "n", "t", ".", "p", "d", "f">>,
      <<"v", "i", "d", "e", "o", ".", "m", "p", "4">> }

ExtensionExamples ==
    { <<"t", "e", "x", "t", "/", "h", "t", "m", "l">>,
      <<"a", "p", "p", "l", "i", "c", "a", "t", "i", "o", "n", "/", "j", "s", "o", "n">>,
      <<"i", "m", "a", "g", "e", "/", "p", "n", "g">>,
      <<"v", "i", "d", "e", "o", "/", "m", "p", "4">>,
      <<"a", "p", "p", "l", "i", "c", "a", "t", "i", "o", "n", "/", "p", "d", "f">> }

(***************************************************************************)
(* What the user can type.                                                 *)
(***************************************************************************)
\* Candidate extensions that are not keys of the forward table.
MissCandidates ==
    { <<>>,
      <<"g", "i", "t", "i", "g", "n", "o", "r", "e">>,
      <<"n", "o", "e", "x", "t", "e", "n", "s", "i", "o", "n">>,
      <<"c", "o", "n", "s", "t", "r", "u", "c", "t", "o", "r">>,
      <<"_", "_", "p", "r", "o", "t", "o", "_", "_">>,
      <<"t", "o", "S", "t", "r", "i", "n", "g">> }

Recasings(s) == {s, toUpperCase(s)}

\* n directory segments that contain a dot and a separator, then a name.
RECURSIVE PathPrefix(_)
PathPrefix(n) ==
    IF n = 0 THEN <<"i", "n", "d", "e", "x">>
    ELSE <<"a", ".", "b", "/">> \o PathPrefix(n - 1)

\* The empty prefix gives the bare leading dot ('.png').
Prefixes == {<<>>} \cup {PathPrefix(n) : n \in 1..MaxSegments}

ForwardKeys == OwnKeys(extensionToMime)

ForwardValues == {v.val : v \in OwnValues(extensionToMime)}

ExtensionCandidates == {Chars(k) : k \in ForwardKeys} \cup MissCandidates

\* Bare candidates in both casings, every prefix + '.' + candidate, and the
\* scenarios 'index.HTML', 'file.', 'html.b' (a key only before the dot)
\* and 'Photo.JpEg' (mixed case).
FilePathInputs ==
    UNION { Recasings(c) \cup {p \o <<".">> \o c : p \in Prefixes}
            : c \in ExtensionCandidates }
    \cup { PathPrefix(0) \o <<".">> \o toUpperCase(Chars("html")),
           <<"f", "i", "l", "e", ".">>,
           <<"h", "t", "m", "l", ".", "b">>,
           <<"P", "h", "o", "t", "o", ".", "J", "p", "E", "g">> }

MimeTypeInputs ==
    UNION { Recasings(Chars(m)) : m \in ForwardValues }
    \cup UNION { Recasings(c) : c \in MissCandidates }
    \cup { <<".">>, <<"f", "i", "l", "e", ".">>,
           <<"n", "o", "t", "/", "a", "/", "r", "e", "a", "l", "-", "t", "y", "p", "e">>,
           <<"p", "n", "g">>,
           <<"T", "e", "x", "t", "/", "H", "t", "m", "L">> }

\* The texts an input field goes through while one of the strings above (or
\* an example put there by a click) is typed or deleted character by
\* character.
PrefixesOf(S) == UNION { {SubSeq(s, 1, n) : n \in 0..Len(s)} : s \in S }

FilePathTexts == PrefixesOf(FilePathInputs \cup MimeLookupExamples)

MimeTypeTexts == PrefixesOf(MimeTypeInputs \cup ExtensionExamples)

Alphabet == UNION { {s[i] : i \in 1..Len(s)} : s \in FilePathInputs \cup MimeTypeInputs }

\* The values one keystroke away from text: a character typed at the end
\* or the last character deleted.
Edits(text) ==
    {Append(text, c) : c \in Alphabet}
    \cup (IF Len(text) > 0 THEN {SubSeq(text, 1, Len(text) - 1)} ELSE {})

(***************************************************************************)
(* The components.                                                         *)
(***************************************************************************)
Tabs == {"lookup", "extension", "browse"}

\* useState initial values of MimeLookupDemo and of ExtensionDemo.
MimeLookupDemoInit == [filePath |-> <<>>, result |-> null, copied |-> FALSE]

ExtensionDemoInit == [mimeType |-> <<>>, result |-> null, copied |-> FALSE]

Event(component, handler) == [component |-> component, handler |-> handler]

\* process.env and the environment module before it is loaded; the page
\* and its components do not import the module.
\* A value of process.env: undefined when the variable is not set, else a
\* string, kept as its characters.
Unset == [kind |-> "undefined", val |-> <<>>]

EnvText(chars) == [kind |-> "string", val |-> chars]

ProcessEnvUnset ==
    [ NEXT_PUBLIC_APP_URL  |-> Unset,
      NEXT_PUBLIC_APP_NAME |-> Unset,
      NODE_ENV             |-> Unset ]

\* The code prop of the 'Basic Usage' CodeBlock of the home page.
CodeBlockCode ==
    "import mimeTypesLite from 'mime-types-lite';\n\n"
    \o "// Access MIME types as constants\n"
    \o "mimeTypesLite.HTML;        // 'text/html'\n"
    \o "mimeTypesLite.CSS;         // 'text/css'\n"
    \o "mimeTypesLite.JS;          // 'application/javascript'\n"
    \o "mimeTypesLite.PNG;         // 'image/png'\n"
    \o "mimeTypesLite.PDF;         // 'application/pdf'\n"
    \o "mimeTypesLite.JSON;        // 'application/json'"

\* useState initial value of CodeBlock.
CodeBlockInit == [copied |-> FALSE]

\* <InstallationTabs />: packageName has its default.
packageName == "mime-types-lite"

InstallationTabNames == {"npm", "yarn", "pnpm"}

commands ==
    [ npm  |-> "npm install " \o packageName,
      yarn |-> "yarn add " \o packageName,
      pnpm |-> "pnpm add " \o packageName ]

\* useState initial values of InstallationTabs.
InstallationTabsInit == [activeTab |-> "npm", copied |-> FALSE]

EnvModuleNotLoaded == [status |-> "not loaded"]

NoCall == [fn |-> "none"]

Init ==
    /\ activeTab = "lookup"
    /\ MimeLookupDemo = MimeLookupDemoInit
    /\ ExtensionDemo = ExtensionDemoInit
    /\ lastEvent = Event("DemoPage", "mount")
    /\ tableWrites = <<>>
    /\ clipboard = ""
    /\ timers = <<>>
    /\ CodeBlock = CodeBlockInit
    /\ InstallationTabs = InstallationTabsInit
    /\ processEnv = ProcessEnvUnset
    /\ envModule = EnvModuleNotLoaded
    /\ lastCall = NoCall

(***************************************************************************)
(* What the components render.                                             *)
(***************************************************************************)
\* {result !== null && (...)}: the result panel.
MimeLookupResultPanel == activeTab = "lookup" /\ MimeLookupDemo.result # null

\* {result === undefined && filePath && (...)}: the not-found message.
MimeLookupNotFoundMessage ==
    /\ activeTab = "lookup"
    /\ MimeLookupDemo.result = undefined
    /\ MimeLookupDemo.filePath # <<>>

ExtensionResultPanel == activeTab = "extension" /\ ExtensionDemo.result # null

ExtensionNotFoundMessage ==
    /\ activeTab = "extension"
    /\ ExtensionDemo.result = undefined
    /\ ExtensionDemo.mimeType # <<>>

\* What React does with a value rendered as a child, {result}: a string is
\* shown, a function is left out (with a warning), and an object that is no
\* element makes the render throw ("Objects are not valid as a React
\* child").
RenderChild(v) ==
    CASE v.kind = "string"   -> "text"
      [] v.kind = "function" -> "nothing"
      [] v.kind = "object"   -> "throws"
      [] OTHER               -> "nothing"

MimeLookupRenderThrows ==
    MimeLookupResultPanel /\ RenderChild(MimeLookupDemo.result) = "throws"

ExtensionRenderThrows ==
    ExtensionResultPanel /\ RenderChild(ExtensionDemo.result) = "throws"

\* An error thrown while rendering is caught by no component: the page is
\* replaced by the error screen and none of its handlers can run any more.
Crashed == MimeLookupRenderThrows \/ ExtensionRenderThrows

(***************************************************************************)
(* The handlers.                                                           *)
(***************************************************************************)
\* A variant of the tab switch that keeps the panels mounted and only hides
\* them.
SetActiveTab_KeepsMounted(tab) ==
    /\ ~Crashed
    /\ activeTab' = tab
    /\ lastEvent' = Event("DemoPage", "setActiveTab")
    /\ UNCHANGED <<MimeLookupDemo, ExtensionDemo, timers, tableWrites, clipboard>>
    /\ UNCHANGED widgetVars
    /\ UNCHANGED envVars

\* DemoPage tab buttons: setActiveTab(tab).  The panel of the tab that is
\* left is unmounted and loses its state; the panel shown is mounted anew.
\* The timers of the unmounted panel stay pending, but their setCopied no
\* longer has a component to update.
SetActiveTab(tab) ==
    /\ ~Crashed
    /\ activeTab' = tab
    /\ MimeLookupDemo' = IF tab = activeTab THEN MimeLookupDemo ELSE MimeLookupDemoInit
    /\ ExtensionDemo' = IF tab = activeTab THEN ExtensionDemo ELSE ExtensionDemoInit
    /\ timers' = IF tab = activeTab THEN timers
                 ELSE [i \in 1..Len(timers) |->
                         IF timers[i].component \in {"MimeLookupDemo", "ExtensionDemo"}
                         THEN [timers[i] EXCEPT !.live = FALSE]
                         ELSE timers[i]]
    /\ lastEvent' = Event("DemoPage", "setActiveTab")
    /\ UNCHANGED <<tableWrites, clipboard>>
    /\ UNCHANGED widgetVars
    /\ UNCHANGED envVars

\* A variant of onChange that looks the text up as it is typed.
MimeLookupOnChange_LooksUp(value) ==
    /\ activeTab = "lookup" /\ ~Crashed
    /\ MimeLookupDemo' = [MimeLookupDemo EXCEPT !.filePath = value,
                                                !.result = LookupMimeType(value)]
    /\ lastEvent' = Event("MimeLookupDemo", "onChange")
    /\ UNCHANGED <<activeTab, ExtensionDemo, tableWrites, clipboard, timers>>
    /\ UNCHANGED widgetVars
    /\ UNCHANGED envVars

\* MimeLookupDemo: Input onChange, setFilePath(e.target.value)
MimeLookupOnChange(value) ==
    /\ activeTab = "lookup" /\ ~Crashed
    /\ MimeLookupDemo' = [MimeLookupDemo EXCEPT !.filePath = value]
    /\ lastEvent' = Event("MimeLookupDemo", "onChange")
    /\ UNCHANGED <<activeTab, ExtensionDemo, tableWrites, clipboard, timers>>
    /\ UNCHANGED widgetVars
    /\ UNCHANGED envVars

\* A variant of handleLookup that also resets the copied flag.
MimeLookupHandleLookup_ResetsCopied ==
    /\ activeTab = "lookup" /\ ~Crashed
    /\ MimeLookupDemo' =
         [MimeLookupDemo EXCEPT !.result = LookupMimeType(MimeLookupDemo.filePath),
                                !.copied = FALSE]
    /\ tableWrites' = tableWrites \o MimeLookupTableWrites(MimeLookupDemo.filePath)
    /\ lastEvent' = Event("MimeLookupDemo", "handleLookup")
    /\ UNCHANGED <<activeTab, ExtensionDemo, clipboard, timers>>
    /\ UNCHANGED widgetVars
    /\ UNCHANGED envVars

\* MimeLookupDemo.handleLookup (search button or Enter)
MimeLookupHandleLookup ==
    /\ activeTab = "lookup" /\ ~Crashed
    /\ MimeLookupDemo' =
         [MimeLookupDemo EXCEPT !.result = LookupMimeType(MimeLookupDemo.filePath)]
    /\ tableWrites' = tableWrites \o MimeLookupTableWrites(MimeLookupDemo.filePath)
    /\ lastEvent' = Event("MimeLookupDemo", "handleLookup")
    /\ UNCHANGED <<activeTab, ExtensionDemo, clipboard, timers>>
    /\ UNCHANGED widgetVars
    /\ UNCHANGED envVars

\* MimeLookupDemo: example button onClick
MimeLookupExampleClick(example) ==
    /\ activeTab = "lookup" /\ ~Crashed
    /\ MimeLookupDemo' =
         [MimeLookupDemo EXCEPT !.filePath = example,
                                !.result = LookupMimeType(example)]
    /\ tableWrites' = tableWrites \o MimeLookupTableWrites(example)
    /\ lastEvent' = Event("MimeLookupDemo", "example")
    /\ UNCHANGED <<activeTab, ExtensionDemo, clipboard, timers>>
    /\ UNCHANGED widgetVars
    /\ UNCHANGED envVars

\* String(v), the text navigator.clipboard.writeText(v) receives.
StringOf(v) ==
    CASE v.kind = "string"   -> v.val
      [] v.kind = "function" ->
            "function " \o (IF v.val = "constructor" THEN "Object" ELSE v.val)
                        \o "() { [native code] }"
      [] v.kind = "object"   -> "[object Object]"
      [] OTHER               -> v.kind

\* The clipboard after writeText(text): the write is asynchronous and may be
\* refused, which leaves the clipboard as it was.
ClipboardAfterWrite(text) == {text, clipboard}

\* MimeLookupDemo.handleCopy.  Its button is part of the result panel; the
\* handler tests result itself and is modelled for every state of the
\* mounted component.
MimeLookupHandleCopy ==
    /\ activeTab = "lookup" /\ ~Crashed
    /\ Len(timers) < MaxTimers
    /\ IF Truthy(MimeLookupDemo.result)
       THEN /\ clipboard' \in ClipboardAfterWrite(StringOf(MimeLookupDemo.result))
            /\ MimeLookupDemo' = [MimeLookupDemo EXCEPT !.copied = TRUE]
            /\ timers' = Append(timers, [component |-> "MimeLookupDemo", live |-> TRUE])
       ELSE UNCHANGED <<clipboard, MimeLookupDemo, timers>>
    /\ lastEvent' = Event("MimeLookupDemo", "handleCopy")
    /\ UNCHANGED <<activeTab, ExtensionDemo, tableWrites>>
    /\ UNCHANGED widgetVars
    /\ UNCHANGED envVars

\* ExtensionDemo: Input onChange, setMimeType(e.target.value)
ExtensionOnChange(value) ==
    /\ activeTab = "extension" /\ ~Crashed
    /\ ExtensionDemo' = [ExtensionDemo EXCEPT !.mimeType = value]
    /\ lastEvent' = Event("ExtensionDemo", "onChange")
    /\ UNCHANGED <<activeTab, MimeLookupDemo, tableWrites, clipboard, timers>>
    /\ UNCHANGED widgetVars
    /\ UNCHANGED envVars

\* ExtensionDemo.handleLookup (search button or Enter)
ExtensionHandleLookup ==
    /\ activeTab = "extension" /\ ~Crashed
    /\ ExtensionDemo' =
         [ExtensionDemo EXCEPT !.result = LookupExtension(ExtensionDemo.mimeType)]
    /\ tableWrites' = tableWrites \o ExtensionTableWrites(ExtensionDemo.mimeType)
    /\ lastEvent' = Event("ExtensionDemo", "handleLookup")
    /\ UNCHANGED <<activeTab, MimeLookupDemo, clipboard, timers>>
    /\ UNCHANGED widgetVars
    /\ UNCHANGED envVars

\* ExtensionDemo: example button onClick
ExtensionExampleClick(example) ==
    /\ activeTab = "extension" /\ ~Crashed
    /\ ExtensionDemo' =
         [ExtensionDemo EXCEPT !.mimeType = example,
                               !.result = LookupExtensionExact(example)]
    /\ tableWrites' = tableWrites \o ExtensionTableWrites(example)
    /\ lastEvent' = Event("ExtensionDemo", "example")
    /\ UNCHANGED <<activeTab, MimeLookupDemo, clipboard, timers>>
    /\ UNCHANGED widgetVars
    /\ UNCHANGED envVars

\* ExtensionDemo.handleCopy, as MimeLookupDemo.handleCopy.
ExtensionHandleCopy ==
    /\ activeTab = "extension" /\ ~Crashed
    /\ Len(timers) < MaxTimers
    /\ IF Truthy(ExtensionDemo.result)
       THEN /\ clipboard' \in ClipboardAfterWrite(StringOf(ExtensionDemo.result))
            /\ ExtensionDemo' = [ExtensionDemo EXCEPT !.copied = TRUE]
            /\ timers' = Append(timers, [component |-> "ExtensionDemo", live |-> TRUE])
       ELSE UNCHANGED <<clipboard, ExtensionDemo, timers>>
    /\ lastEvent' = Event("ExtensionDemo", "handleCopy")
    /\ UNCHANGED <<activeTab, MimeLookupDemo, tableWrites>>
    /\ UNCHANGED widgetVars
    /\ UNCHANGED envVars

\* CodeBlock.handleCopy (the 'Basic Usage' block of the home page)
CodeBlockHandleCopy ==
    /\ Len(timers) < MaxTimers
    /\ clipboard' \in ClipboardAfterWrite(CodeBlockCode)
    /\ CodeBlock' = [CodeBlock EXCEPT !.copied = TRUE]
    /\ timers' = Append(timers, [component |-> "CodeBlock", live |-> TRUE])
    /\ lastEvent' = Event("CodeBlock", "handleCopy")
    /\ UNCHANGED <<activeTab, MimeLookupDemo, ExtensionDemo, tableWrites, InstallationTabs>>
    /\ UNCHANGED envVars

\* InstallationTabs: the buttons npm, Yarn, pnpm, setActiveTab(tab)
InstallationTabsSetActiveTab(tab) ==
    /\ InstallationTabs' = [InstallationTabs EXCEPT !.activeTab = tab]
    /\ lastEvent' = Event("InstallationTabs", "setActiveTab")
    /\ UNCHANGED <<activeTab, MimeLookupDemo, ExtensionDemo, tableWrites, clipboard,
                   timers, CodeBlock>>
    /\ UNCHANGED envVars

\* InstallationTabs.handleCopy
InstallationTabsHandleCopy ==
    /\ Len(timers) < MaxTimers
    /\ clipboard' \in ClipboardAfterWrite(commands[InstallationTabs.activeTab])
    /\ InstallationTabs' = [InstallationTabs EXCEPT !.copied = TRUE]
    /\ timers' = Append(timers, [component |-> "InstallationTabs", live |-> TRUE])
    /\ lastEvent' = Event("InstallationTabs", "handleCopy")
    /\ UNCHANGED <<activeTab, MimeLookupDemo, ExtensionDemo, tableWrites, CodeBlock>>
    /\ UNCHANGED envVars

\* A variant of the timer whose callback leaves the flag alone.
TimerFires_NoReset ==
    /\ Len(timers) > 0
    /\ lastEvent' = Event(Head(timers).component, "timeout")
    /\ timers' = Tail(timers)
    /\ UNCHANGED <<activeTab, MimeLookupDemo, ExtensionDemo, tableWrites, clipboard>>
    /\ UNCHANGED widgetVars
    /\ UNCHANGED envVars

\* setTimeout(() => setCopied(false), 2000): all timers have the same delay,
\* so the oldest pending one fires first.  setCopied(false) of a component
\* that is no longer mounted has no effect.  (The home page is not touched
\* by an error of the demo page.)
TimerFires ==
    /\ Len(timers) > 0
    /\ LET timer == Head(timers)
           acts  == timer.live /\ ~Crashed
       IN  /\ MimeLookupDemo' =
                IF acts /\ timer.component = "MimeLookupDemo"
                THEN [MimeLookupDemo EXCEPT !.copied = FALSE] ELSE MimeLookupDemo
           /\ ExtensionDemo' =
                IF acts /\ timer.component = "ExtensionDemo"
                THEN [ExtensionDemo EXCEPT !.copied = FALSE] ELSE ExtensionDemo
           /\ CodeBlock' =
                IF timer.live /\ timer.component = "CodeBlock"
                THEN [CodeBlock EXCEPT !.copied = FALSE] ELSE CodeBlock
           /\ InstallationTabs' =
                IF timer.live /\ timer.component = "InstallationTabs"
                THEN [InstallationTabs EXCEPT !.copied = FALSE] ELSE InstallationTabs
           /\ lastEvent' = Event(timer.component, "timeout")
    /\ timers' = Tail(timers)
    /\ UNCHANGED <<activeTab, tableWrites, clipboard>>
    /\ UNCHANGED envVars

\* The lookups over all the texts of FilePathTexts and MimeTypeTexts; the
\* copy buttons are left alone.
Next ==
    \/ \E tab \in Tabs : SetActiveTab(tab)
    \/ \E value \in Edits(MimeLookupDemo.filePath) \cap FilePathTexts : MimeLookupOnChange(value)
    \/ MimeLookupHandleLookup
    \/ \E example \in MimeLookupExamples : MimeLookupExampleClick(example)
    \/ \E value \in Edits(ExtensionDemo.mimeType) \cap MimeTypeTexts : ExtensionOnChange(value)
    \/ ExtensionHandleLookup
    \/ \E example \in ExtensionExamples : ExtensionExampleClick(example)

Spec == Init /\ [][Next]_vars

\* A few texts, for the specification of all the handlers: a hit with a
\* leading dot, a hit in upper case, an inherited member.
ShortFilePathTexts == PrefixesOf({ <<".", "j", "s">>, <<"7", "Z">> })

ShortMimeTypeTexts ==
    PrefixesOf({ <<"t", "e", "x", "t", "/", "c", "s", "s">>,
                 <<"c", "o", "n", "s", "t", "r", "u", "c", "t", "o", "r">> })

\* Every handler of the page, the copy buttons and their timers included,
\* over the short texts.
NextUI ==
    \/ \E tab \in Tabs : SetActiveTab(tab)
    \/ \E value \in Edits(MimeLookupDemo.filePath) \cap ShortFilePathTexts : MimeLookupOnChange(value)
    \/ MimeLookupHandleLookup
    \/ \E example \in MimeLookupExamples : MimeLookupExampleClick(example)
    \/ MimeLookupHandleCopy
    \/ \E value \in Edits(ExtensionDemo.mimeType) \cap ShortMimeTypeTexts : ExtensionOnChange(value)
    \/ ExtensionHandleLookup
    \/ \E example \in ExtensionExamples : ExtensionExampleClick(example)
    \/ ExtensionHandleCopy
    \/ TimerFires

SpecUI == Init /\ [][NextUI]_vars

\* Spelling spells every string of the tables.
SpellingOK == \A s \in DOMAIN Spelling : Join(Spelling[s]) = s

\* The examples clicked in the specification of the copy buttons.
CopyMimeLookupExamples == { <<"a", "p", "p", ".", "j", "s">> }

CopyExtensionExamples == { <<"t", "e", "x", "t", "/", "h", "t", "m", "l">> }

\* The copy buttons of the four components and their timers, with the tab
\* switches and example clicks that give them something to copy.
NextCopy ==
    \/ \E tab \in Tabs : SetActiveTab(tab)
    \/ \E example \in CopyMimeLookupExamples : MimeLookupExampleClick(example)
    \/ MimeLookupHandleCopy
    \/ \E example \in CopyExtensionExamples : ExtensionExampleClick(example)
    \/ ExtensionHandleCopy
    \/ CodeBlockHandleCopy
    \/ \E tab \in InstallationTabNames : InstallationTabsSetActiveTab(tab)
    \/ InstallationTabsHandleCopy
    \/ TimerFires

\* A timer that is pending fires: the browser runs the callback of every
\* setTimeout once its delay has passed.
SpecCopy == Init /\ [][NextCopy]_vars /\ WF_vars(TimerFires)

TypeOK ==
    /\ SpellingOK
    /\ activeTab \in Tabs
    /\ MimeLookupDemo.filePath \in FilePathTexts
    /\ ExtensionDemo.mimeType \in MimeTypeTexts
    /\ Len(timers) <= MaxTimers

(***************************************************************************)
(* The environment configuration.                                          *)
(***************************************************************************)
\* ENV of @/lib/constants.
ENV == [DEVELOPMENT |-> "development", PRODUCTION |-> "production", TEST |-> "test"]

\* Object.values(ENV), in the order of the literal.
ENVValues == <<ENV.DEVELOPMENT, ENV.PRODUCTION, ENV.TEST>>

\* The characters String.prototype.trim removes, as far as the inputs have
\* them.
WhiteSpace == {" ", "\t"}

RECURSIVE trimStart(_)
trimStart(s) ==
    IF Len(s) > 0 /\ Head(s) \in WhiteSpace THEN trimStart(Tail(s)) ELSE s

RECURSIVE trimEnd(_)
trimEnd(s) ==
    IF Len(s) > 0 /\ s[Len(s)] \in WhiteSpace
    THEN trimEnd(SubSeq(s, 1, Len(s) - 1)) ELSE s

\* value.trim()
trim(s) == trimEnd(trimStart(s))

\* array.join(separator)
RECURSIVE JoinWith(_, _)
JoinWith(array, separator) ==
    IF Len(array) = 0 THEN ""
    ELSE IF Len(array) = 1 THEN array[1]
    ELSE array[1] \o separator \o JoinWith(Tail(array), separator)

\* How a call ends: with a value or with an Error of this message.
Return(value) == [kind |-> "return", val |-> value]

Throw(message) == [kind |-> "throw", val |-> message]

\* A variant that returns the trimmed value.
_getRequiredEnv_Trimmed(key, value) ==
    IF value.kind = "undefined" \/ Len(value.val) = 0 \/ Len(trim(value.val)) = 0
    THEN Throw("Missing required environment variable: " \o key)
    ELSE Return(Join(trim(value.val)))

\* _getRequiredEnv(key, value)
_getRequiredEnv(key, value) ==
    IF value.kind = "undefined" \/ Len(value.val) = 0 \/ Len(trim(value.val)) = 0
    THEN Throw("Missing required environment variable: " \o key)
    ELSE Return(Join(value.val))

\* A variant without trim: value || defaultValue.
getOptionalEnv_NoTrim(value, defaultValue) ==
    IF value.kind = "undefined" THEN defaultValue
    ELSE IF Len(value.val) = 0 THEN defaultValue
    ELSE Join(value.val)

\* getOptionalEnv(value, defaultValue): value?.trim() || defaultValue
getOptionalEnv(value, defaultValue) ==
    IF value.kind = "undefined" THEN defaultValue
    ELSE LET trimmed == trim(value.val)
         IN  IF Len(trimmed) = 0 THEN defaultValue ELSE Join(trimmed)

\* A variant that accepts every value.
validateEnv_AcceptsAll(value) == Return(value)

\* validateEnv(value)
validateEnv(value) ==
    IF \A i \in 1..Len(ENVValues) : ENVValues[i] # value
    THEN Throw("Invalid NODE_ENV: \"" \o value \o "\". Must be one of: "
                  \o JoinWith(ENVValues, ", "))
    ELSE Return(value)

\* The values process.env may hold for the variables the module reads.
AppUrlValues ==
    { Unset, EnvText(<<>>), EnvText(<<" ">>),
      EnvText(<<" ", "h", "t", "t", "p", "s", ":", "/", "/", "a", ".", "i", "o", "\t">>) }

AppNameValues ==
    { Unset, EnvText(<<"\t", " ">>), EnvText(<<"M", "y", " ", "A", "p", "p">>),
      EnvText(<<" ", "M", "y", " ", "A", "p", "p", " ">>) }

NodeEnvValues ==
    { Unset, EnvText(<<>>), EnvText(<<" ">>), EnvText(<<"\t", " ">>),
      EnvText(<<"d", "e", "v", "e", "l", "o", "p", "m", "e", "n", "t">>),
      EnvText(<<"p", "r", "o", "d", "u", "c", "t", "i", "o", "n">>),
      EnvText(<<"t", "e", "s", "t">>),
      EnvText(<<" ", "p", "r", "o", "d", "u", "c", "t", "i", "o", "n", " ">>),
      EnvText(<<"t", "e", "s", "t", "\t">>),
      EnvText(<<"P", "r", "o", "d", "u", "c", "t", "i", "o", "n">>),
      EnvText(<<" ", "s", "t", "a", "g", "i", "n", "g">>),
      EnvText(<<"t", "e", " ", "s", "t">>) }

EnvValues == AppUrlValues \cup AppNameValues \cup NodeEnvValues

\* Names of variables a caller may require, and defaults a caller may give.
EnvKeys == {"DATABASE_URL", "API_SECRET"}

EnvDefaults == {"", "http://localhost:3000", "Next.js App"}

\* The module is loaded in a process whose environment is any of these.
InitEnv ==
    /\ activeTab = "lookup"
    /\ MimeLookupDemo = MimeLookupDemoInit
    /\ ExtensionDemo = ExtensionDemoInit
    /\ lastEvent = Event("DemoPage", "mount")
    /\ tableWrites = <<>>
    /\ clipboard = ""
    /\ timers = <<>>
    /\ CodeBlock = CodeBlockInit
    /\ InstallationTabs = InstallationTabsInit
    /\ processEnv \in [ NEXT_PUBLIC_APP_URL  : AppUrlValues,
                        NEXT_PUBLIC_APP_NAME : AppNameValues,
                        NODE_ENV             : NodeEnvValues ]
    /\ envModule = EnvModuleNotLoaded
    /\ lastCall = NoCall

\* The module body: serverEnv, publicEnv, env, nodeEnv, isDevelopment,
\* isProduction, isTest.  An error thrown by validateEnv ends the load.
LoadEnvModule ==
    /\ envModule.status = "not loaded"
    /\ LET appUrl  == getOptionalEnv(processEnv.NEXT_PUBLIC_APP_URL, "http://localhost:3000")
           appName == getOptionalEnv(processEnv.NEXT_PUBLIC_APP_NAME, "Next.js App")
           nodeEnv == validateEnv(getOptionalEnv(processEnv.NODE_ENV, ENV.DEVELOPMENT))
       IN  envModule' =
             IF nodeEnv.kind = "throw"
             THEN [status |-> "failed", error |-> nodeEnv.val]
             ELSE [status        |-> "loaded",
                   publicEnv     |-> [appUrl |-> appUrl, appName |-> appName],
                   nodeEnv       |-> nodeEnv.val,
                   isDevelopment |-> (nodeEnv.val = ENV.DEVELOPMENT),
                   isProduction  |-> (nodeEnv.val = ENV.PRODUCTION),
                   isTest        |-> (nodeEnv.val = ENV.TEST)]
    /\ UNCHANGED <<processEnv, lastCall>>
    /\ UNCHANGED uiVars

\* A call _getRequiredEnv(key, value), as in the examples of serverEnv.
CallGetRequiredEnv(key, value) ==
    /\ lastCall' = [fn |-> "_getRequiredEnv", key |-> key, value |-> value,
                    outcome |-> _getRequiredEnv(key, value)]
    /\ UNCHANGED <<processEnv, envModule>>
    /\ UNCHANGED uiVars

\* A call getOptionalEnv(value, defaultValue).
CallGetOptionalEnv(value, defaultValue) ==
    /\ lastCall' = [fn |-> "getOptionalEnv", value |-> value,
                    defaultValue |-> defaultValue,
                    outcome |-> Return(getOptionalEnv(value, defaultValue))]
    /\ UNCHANGED <<processEnv, envModule>>
    /\ UNCHANGED uiVars

NextEnv ==
    \/ LoadEnvModule
    \/ \E key \in EnvKeys, value \in EnvValues : CallGetRequiredEnv(key, value)
    \/ \E value \in EnvValues, defaultValue \in EnvDefaults :
          CallGetOptionalEnv(value, defaultValue)

SpecEnv == InitEnv /\ [][NextEnv]_vars

(***************************************************************************)
(* Properties.                                                             *)
(***************************************************************************)
\* The state right after handleLookup of the component ran: the input field
\* still holds the text the lookup read.
AfterMimeLookup ==
    activeTab = "lookup" /\ lastEvent = Event("MimeLookupDemo", "handleLookup")

AfterExtensionLookup ==
    activeTab = "extension" /\ lastEvent = Event("ExtensionDemo", "handleLookup")

ForwardEntries == ObjectEntries(extensionToMime)

\* The position of the first entry of the forward table whose value is v.
FirstEntryWith(v) ==
    CHOOSE i \in 1..Len(ForwardEntries) :
        /\ ForwardEntries[i][2] = v
        /\ \A j \in 1..(i - 1) : ForwardEntries[j][2] # v

\* C1: for every (extension, mimeType) entry of the forward table, the MIME
\* lookup of the extension, and of the extension in upper case, sets the
\* result to mimeType.
C1_ForwardEntryLookup ==
    AfterMimeLookup =>
        \A i \in 1..Len(ForwardEntries) :
            LET ext  == Chars(ForwardEntries[i][1])
                mime == ForwardEntries[i][2]
            IN  MimeLookupDemo.filePath \in {ext, toUpperCase(ext)}
                    => MimeLookupDemo.result = mime

C1_Witness ==
    /\ AfterMimeLookup
    /\ MimeLookupDemo.filePath = <<"W", "O", "F", "F", "2">>
    /\ MimeLookupDemo.result = Str("font/woff2")

\* C2: the result of the MIME lookup is always null or one of the MIME-type
\* strings stored in the forward table; a candidate that is not a key of the
\* forward table ('constructor' and '__proto__' included) yields null.
C2_MimeResultNullOrForwardValue ==
    /\ MimeLookupDemo.result = null \/ MimeLookupDemo.result \in OwnValues(extensionToMime)
    /\ (AfterMimeLookup
          /\ Join(toLowerCase(SplitPop(MimeLookupDemo.filePath))) \notin OwnKeys(extensionToMime))
         => MimeLookupDemo.result = null

\* C3: for every MIME type m of the forward table the extension lookup of m
\* yields an extension e, and the MIME lookup of e yields m.
C3_RoundTrip ==
    AfterExtensionLookup =>
        \A m \in OwnValues(extensionToMime) :
            ExtensionDemo.mimeType = Chars(m.val)
                => /\ ExtensionDemo.result.kind = "string"
                   /\ ExtensionDemo.result.val \in OwnKeys(extensionToMime)
                   /\ LookupMimeType(Chars(ExtensionDemo.result.val)) = m

C3_Witness ==
    /\ AfterExtensionLookup
    /\ ExtensionDemo.mimeType = Chars("application/json")
    /\ ExtensionDemo.result = Str("json")
    /\ LookupMimeType(Chars("json")) = Str("application/json")

\* The inverse table holds, for every MIME type of the forward table, the
\* extension of the first entry with that type.
InverseHoldsFirstExtension ==
    /\ \A v \in OwnValues(extensionToMime) :
          Get(mimeToExtension, v.val) = Str(ForwardEntries[FirstEntryWith(v)][1])
    /\ Get(extensionToMime, "jpeg") = Get(extensionToMime, "jpg")
    /\ Get(mimeToExtension, Get(extensionToMime, "jpeg").val) = Str("jpg")
    /\ Get(extensionToMime, "yml") = Get(extensionToMime, "yaml")
    /\ Get(mimeToExtension, Get(extensionToMime, "yml").val) = Str("yaml")

\* C4: when several extensions share a MIME type, the inverse table holds
\* the one that comes first in the forward table, 'jpg' for the type of
\* 'jpg' and 'jpeg' and 'yaml' for the type of 'yaml' and 'yml', and that
\* is the extension the extension lookup of the type yields.
C4_FirstSeenWins ==
    /\ InverseHoldsFirstExtension
    /\ AfterExtensionLookup =>
          /\ ExtensionDemo.mimeType = Chars(Get(extensionToMime, "jpeg").val)
                => ExtensionDemo.result = Str("jpg")
          /\ ExtensionDemo.mimeType = Chars(Get(extensionToMime, "yml").val)
                => ExtensionDemo.result = Str("yaml")

C4_Witness ==
    /\ AfterExtensionLookup
    /\ ExtensionDemo.mimeType = Chars(Get(extensionToMime, "jpeg").val)
    /\ ExtensionDemo.result = Str("jpg")
    /\ FirstEntryWith(Get(extensionToMime, "jpeg")) < IndexOf(extensionToMime, "jpeg")

\* The keys of the inverse table are the distinct values of the forward
\* table, each once, and the extensions stored are keys of the forward table.
InverseKeysAreForwardValues ==
    /\ OwnKeys(mimeToExtension) = {v.val : v \in OwnValues(extensionToMime)}
    /\ Cardinality(OwnKeys(mimeToExtension)) = Len(mimeToExtension.keys)
    /\ \A k \in OwnKeys(mimeToExtension) :
          /\ Get(mimeToExtension, k).kind = "string"
          /\ Get(mimeToExtension, k).val \in OwnKeys(extensionToMime)

\* C5: the keys of the inverse table are exactly the distinct MIME-type
\* values of the forward table, no key occurs twice, and every key maps to
\* an extension that is a key of the forward table (so that every string
\* the extension lookup yields is such a key).
C5_InverseKeys ==
    /\ InverseKeysAreForwardValues
    /\ ExtensionDemo.result.kind = "string"
          => ExtensionDemo.result.val \in OwnKeys(extensionToMime)

C5_Witness ==
    /\ AfterExtensionLookup
    /\ ExtensionDemo.result = Str("yaml")
    /\ Len(extensionToMime.keys) = 66
    /\ Len(mimeToExtension.keys) = 64

\* The lookup of a candidate taken as a whole: lower-cased and read from the
\* forward table.
LookupWhole(candidate) == Or(Get(extensionToMime, Join(toLowerCase(candidate))), null)

HasDot(text) == \E i \in 1..Len(text) : text[i] = "."

\* C6: the MIME lookup depends only on the characters after the last '.':
\* prefix + '.' + extension yields the entry's MIME type for every entry and
\* every prefix (empty, or with dots and separators in it), a text without
\* '.' is looked up as a whole, '.gitignore' yields null and 'index.HTML'
\* yields 'text/html'.
C6_SuffixAfterLastDot ==
    AfterMimeLookup =>
        LET text == MimeLookupDemo.filePath
        IN  /\ \A n \in 1..Len(text) :
                  (text[n] = "." /\ \A j \in (n + 1)..Len(text) : text[j] # ".")
                      => MimeLookupDemo.result = LookupWhole(SubSeq(text, n + 1, Len(text)))
            /\ ~HasDot(text) => MimeLookupDemo.result = LookupWhole(text)
            /\ \A i \in 1..Len(ForwardEntries) : \A p \in Prefixes :
                  text = p \o <<".">> \o Chars(ForwardEntries[i][1])
                      => MimeLookupDemo.result = ForwardEntries[i][2]
            /\ text = <<".", "g", "i", "t", "i", "g", "n", "o", "r", "e">>
                  => MimeLookupDemo.result = null
            /\ text = <<"i", "n", "d", "e", "x", ".", "H", "T", "M", "L">>
                  => MimeLookupDemo.result = Str("text/html")

C6_Witness ==
    /\ AfterMimeLookup
    /\ MimeLookupDemo.filePath = <<"a", ".", "b", "/", "i", "n", "d", "e", "x", ".", "p", "n", "g">>
    /\ MimeLookupDemo.result = Str("image/png")

\* Every MIME-type value of the forward table is lower case.
ForwardValuesLowerCase == \A m \in ForwardValues : toLowerCase(Chars(m)) = Chars(m)

\* C7: the extension lookup is case-insensitive: for every MIME type m of
\* the forward table, the lookup of any re-casing of m yields the extension
\* the inverse table holds for m; every value of the forward table is lower
\* case.
C7_ExtensionLookupIgnoresCase ==
    /\ ForwardValuesLowerCase
    /\ AfterExtensionLookup =>
          \A m \in ForwardValues :
              toLowerCase(ExtensionDemo.mimeType) = Chars(m)
                  => /\ ExtensionDemo.result = Get(mimeToExtension, m)
                     /\ ExtensionDemo.result.kind = "string"

C7_Witness ==
    /\ AfterExtensionLookup
    /\ ExtensionDemo.mimeType = toUpperCase(Chars("image/svg+xml"))
    /\ ExtensionDemo.result = Str("svg")

\* C8: the result of the extension lookup is always null or an extension key
\* of the forward table; a text whose lower-cased form is not a MIME-type
\* value of the forward table ('not/a/real-type' and 'constructor' included)
\* yields null.
C8_ExtensionResultNullOrForwardKey ==
    /\ \/ ExtensionDemo.result = null
       \/ /\ ExtensionDemo.result.kind = "string"
          /\ ExtensionDemo.result.val \in ForwardKeys
    /\ (AfterExtensionLookup /\ Join(toLowerCase(ExtensionDemo.mimeType)) \notin ForwardValues)
          => ExtensionDemo.result = null

\* C9: after a lookup with a non-empty input, the component displays the
\* not-found message when the lookup missed and the result panel when it hit.
C9_NotFoundMessageAfterMiss ==
    /\ (AfterMimeLookup /\ MimeLookupDemo.filePath # <<>>) =>
          IF LookupWhole(SplitPop(MimeLookupDemo.filePath)) = null
          THEN MimeLookupNotFoundMessage
          ELSE MimeLookupResultPanel
    /\ (AfterExtensionLookup /\ ExtensionDemo.mimeType # <<>>) =>
          IF Get(mimeToExtension, Join(toLowerCase(ExtensionDemo.mimeType))) = undefined
          THEN ExtensionNotFoundMessage
          ELSE ExtensionResultPanel

BoundaryInputs == { <<>>, <<".">>, <<"f", "i", "l", "e", ".">> }

\* C10: on the empty string, on '.' and on 'file.' both lookups complete
\* with the result null.
C10_BoundaryInputsNotFound ==
    /\ (AfterMimeLookup /\ MimeLookupDemo.filePath \in BoundaryInputs)
          => MimeLookupDemo.result = null
    /\ (AfterExtensionLookup /\ ExtensionDemo.mimeType \in BoundaryInputs)
          => ExtensionDemo.result = null

C10_Witness ==
    /\ AfterMimeLookup
    /\ MimeLookupDemo.filePath = <<"f", "i", "l", "e", ".">>
    /\ SplitPop(MimeLookupDemo.filePath) = <<>>
    /\ MimeLookupDemo.result = null

\* C11: no lookup ends in an error: after handleLookup of either component
\* the result is a found string or null, and rendering the stored value does
\* not throw.
C11_NoLookupError ==
    /\ AfterMimeLookup =>
         /\ MimeLookupDemo.result.kind \in {"string", "null"}
         /\ ~MimeLookupRenderThrows
    /\ AfterExtensionLookup =>
         /\ ExtensionDemo.result.kind \in {"string", "null"}
         /\ ~ExtensionRenderThrows

\* C12: the forward table and the inverse table are never modified after
\* module load: after any sequence of typing, lookups, example clicks, copy
\* clicks, tab switches and timer expiries, both tables equal their values at
\* construction.
C12_TablesNeverModified ==
    /\ CurrentExtensionToMime = extensionToMime
    /\ CurrentMimeToExtension = mimeToExtension

\* In the extension tab, after a lookup and a copy there, with the timer of a
\* copy made in the lookup tab (since unmounted) still pending.
C12_Witness ==
    /\ activeTab = "extension"
    /\ lastEvent = Event("ExtensionDemo", "handleCopy")
    /\ ExtensionDemo.result = Str("css")
    /\ clipboard = "css"
    /\ Len(timers) = 2
    /\ timers[1] = [component |-> "MimeLookupDemo", live |-> FALSE]
    /\ C12_TablesNeverModified

\* What the extension lookup of a text yields from the inverse table as
\* constructed.
InverseLookupWhole(text) == Or(Get(mimeToExtension, Join(toLowerCase(text))), null)

LiteralKeysLowerCaseOnce ==
    \A i \in 1..Len(extensionToMimeLiteral) :
       LET key == extensionToMimeLiteral[i][1]
       IN  /\ Len(Chars(key)) > 0
           /\ toLowerCase(Chars(key)) = Chars(key)
           /\ Chars(key)[1] # "."
           /\ \A j \in 1..Len(extensionToMimeLiteral) :
                 extensionToMimeLiteral[j][1] = key => j = i

\* C14: every key of the forward table is a lower-case token without a
\* leading dot and is defined exactly once in the literal, so that no
\* property of the literal is replaced by a later one: a lookup whose
\* candidate is the key of a property yields the value of that property.
C14_KeysLowerCaseOnce ==
    /\ LiteralKeysLowerCaseOnce
    /\ AfterMimeLookup =>
         LET ext == Join(toLowerCase(SplitPop(MimeLookupDemo.filePath)))
         IN  \A i \in 1..Len(extensionToMimeLiteral) :
                extensionToMimeLiteral[i][1] = ext
                   => MimeLookupDemo.result = Str(extensionToMimeLiteral[i][2])

C14_Witness ==
    /\ AfterMimeLookup
    /\ SplitPop(MimeLookupDemo.filePath) = <<"m", "p", "3">>
    /\ MimeLookupDemo.result = Str(mimeTypesLite.MP3)
    /\ Len(extensionToMimeLiteral) = Cardinality(OwnKeys(extensionToMime))

\* A variant of the listing that enumerates the forward table.
BrowseRows_ForwardTable ==
    IF activeTab = "browse"
    THEN {ForwardEntries[i] : i \in 1..Len(ForwardEntries)}
    ELSE {}

\* The rows of the table of the 'Browse All' tab, as <<first cell, second
\* cell>>: Object.entries(mimeTypesLite).map(([key, value]) => <tr>...).  The
\* table is rendered only while the tab is active.
BrowseRows ==
    IF activeTab = "browse"
    THEN {<<key, mimeTypesLite[key]>> : key \in DOMAIN mimeTypesLite}
    ELSE {}

\* C15 as stated: the 'Browse All' tab shows one row for every entry of the
\* forward table: every (extension, mimeType) entry of extensionToMime is a
\* row, and every row is such an entry.
C15_BrowseListsForwardTable ==
    activeTab = "browse" =>
       BrowseRows = {<<ForwardEntries[i][1], ForwardEntries[i][2].val>> :
                        i \in 1..Len(ForwardEntries)}

\* C15, amended: the 'Browse All' tab shows one row (constant name, MIME
\* type) for every entry of the mimeTypesLite object and no other row; every
\* MIME type of the forward table is the MIME type of some row, and no
\* extension is shown.
C15_BrowseListsMimeTypesLite ==
    activeTab = "browse" =>
       /\ \A key \in DOMAIN mimeTypesLite : <<key, mimeTypesLite[key]>> \in BrowseRows
       /\ \A row \in BrowseRows :
             row[1] \in DOMAIN mimeTypesLite /\ row[2] = mimeTypesLite[row[1]]
       /\ \A mimeType \in ForwardValues : \E row \in BrowseRows : row[2] = mimeType
       /\ \A row \in BrowseRows : row[1] \notin ForwardKeys

C15_Witness ==
    /\ activeTab = "browse"
    /\ <<"HTML", "text/html">> \in BrowseRows
    /\ <<"html", "text/html">> \notin BrowseRows
    /\ Cardinality(BrowseRows) = Cardinality(DOMAIN mimeTypesLite)

\* C16: a lookup has no side effect beyond its result: a step of
\* handleLookup of MimeLookupDemo or of ExtensionDemo leaves the input text,
\* the copied flag, the clipboard and both tables as they were (and also the
\* active tab, the other component and the pending timers).
C16_LookupChangesOnlyResult ==
    [][ /\ lastEvent' = Event("MimeLookupDemo", "handleLookup") =>
              /\ MimeLookupDemo'.filePath = MimeLookupDemo.filePath
              /\ MimeLookupDemo'.copied = MimeLookupDemo.copied
              /\ clipboard' = clipboard
              /\ CurrentExtensionToMime' = CurrentExtensionToMime
              /\ CurrentMimeToExtension' = CurrentMimeToExtension
              /\ UNCHANGED <<activeTab, ExtensionDemo, timers>>
        /\ lastEvent' = Event("ExtensionDemo", "handleLookup") =>
              /\ ExtensionDemo'.mimeType = ExtensionDemo.mimeType
              /\ ExtensionDemo'.copied = ExtensionDemo.copied
              /\ clipboard' = clipboard
              /\ CurrentExtensionToMime' = CurrentExtensionToMime
              /\ CurrentMimeToExtension' = CurrentMimeToExtension
              /\ UNCHANGED <<activeTab, MimeLookupDemo, timers>>
      ]_vars

\* A lookup made while the copied flag is set and the clipboard holds an
\* earlier result.
C16_Witness ==
    /\ AfterMimeLookup
    /\ MimeLookupDemo.filePath = <<".", "j", "s">>
    /\ MimeLookupDemo.result = Str(mimeTypesLite.JS)
    /\ MimeLookupDemo.copied
    /\ clipboard = mimeTypesLite.SEVEN_ZIP
    /\ Len(timers) = 1

\* A value is blank when it is undefined, empty or only white space.
IsBlank(value) ==
    value.kind = "undefined" \/ \A i \in 1..Len(value.val) : value.val[i] \in WhiteSpace

\* The text of a value that is not blank, from its first to its last
\* character that is not white space.
Stripped(value) ==
    LET solid == {i \in 1..Len(value.val) : value.val[i] \notin WhiteSpace}
        first == CHOOSE i \in solid : \A j \in solid : i <= j
        last  == CHOOSE i \in solid : \A j \in solid : j <= i
    IN  Join(SubSeq(value.val, first, last))

OptionalOrDefault(value, defaultValue) ==
    IF IsBlank(value) THEN defaultValue ELSE Stripped(value)

\* C17: getOptionalEnv(value, defaultValue) returns defaultValue when value
\* is undefined, empty or only white space, and otherwise value without its
\* surrounding white space; it never throws.  The same holds of appUrl and
\* appName, which the module computes with it.
C17_OptionalEnvTrimsOrDefaults ==
    /\ lastCall.fn = "getOptionalEnv" =>
          /\ lastCall.outcome.kind = "return"
          /\ lastCall.outcome.val = OptionalOrDefault(lastCall.value, lastCall.defaultValue)
    /\ envModule.status = "loaded" =>
          /\ envModule.publicEnv.appUrl =
                OptionalOrDefault(processEnv.NEXT_PUBLIC_APP_URL, "http://localhost:3000")
          /\ envModule.publicEnv.appName =
                OptionalOrDefault(processEnv.NEXT_PUBLIC_APP_NAME, "Next.js App")

C17_Witness ==
    /\ envModule.status = "loaded"
    /\ processEnv.NEXT_PUBLIC_APP_URL = EnvText(<<" ">>)
    /\ envModule.publicEnv.appUrl = "http://localhost:3000"
    /\ processEnv.NEXT_PUBLIC_APP_NAME = EnvText(<<" ", "M", "y", " ", "A", "p", "p", " ">>)
    /\ envModule.publicEnv.appName = "My App"
    /\ lastCall.fn = "getOptionalEnv"
    /\ lastCall.value = EnvText(<<"t", "e", "s", "t", "\t">>)
    /\ lastCall.outcome = Return("test")

ENVNames == {ENVValues[i] : i \in 1..Len(ENVValues)}

InvalidNodeEnvMessage(value) ==
    "Invalid NODE_ENV: \"" \o value \o "\". Must be one of: development, production, test"

\* What holds of a module that loaded: nodeEnv is an ENV value, it is
\* 'development' when NODE_ENV is unset or blank, and exactly one of the
\* three flags is true.
LoadedNodeEnv ==
    envModule.status = "loaded" =>
       /\ envModule.nodeEnv \in ENVNames
       /\ IsBlank(processEnv.NODE_ENV) => envModule.nodeEnv = ENV.DEVELOPMENT
       /\ Cardinality({flag \in {"isDevelopment", "isProduction", "isTest"} :
                          envModule[flag]}) = 1
       /\ envModule.isDevelopment <=> envModule.nodeEnv = ENV.DEVELOPMENT
       /\ envModule.isProduction <=> envModule.nodeEnv = ENV.PRODUCTION
       /\ envModule.isTest <=> envModule.nodeEnv = ENV.TEST

\* C18 as stated: the load fails with an 'Invalid NODE_ENV' error when
\* NODE_ENV is set to a non-blank value that is not one of the ENV values;
\* when it succeeds, nodeEnv is an ENV value, 'development' when NODE_ENV is
\* unset or blank, and exactly one of the flags is true.
C18_InvalidNodeEnvFailsLoad ==
    envModule.status # "not loaded" =>
       /\ (~IsBlank(processEnv.NODE_ENV) /\ Join(processEnv.NODE_ENV.val) \notin ENVNames)
             => envModule.status = "failed"
       /\ LoadedNodeEnv

\* C18, amended: the load fails with an 'Invalid NODE_ENV' error exactly
\* when NODE_ENV, with its surrounding white space removed, is non-empty and
\* not one of the ENV values (the comparison is case-sensitive); the message
\* quotes the trimmed value.  A value that is an ENV value with white space
\* around it is accepted, and nodeEnv is then the trimmed value.  When the
\* load succeeds, nodeEnv is an ENV value, 'development' when NODE_ENV is
\* unset or blank, and exactly one of the flags is true.
C18_InvalidTrimmedNodeEnvFailsLoad ==
    envModule.status # "not loaded" =>
       /\ IF ~IsBlank(processEnv.NODE_ENV) /\ Stripped(processEnv.NODE_ENV) \notin ENVNames
          THEN /\ envModule.status = "failed"
               /\ envModule.error = InvalidNodeEnvMessage(Stripped(processEnv.NODE_ENV))
          ELSE envModule.status = "loaded"
       /\ (envModule.status = "loaded" /\ ~IsBlank(processEnv.NODE_ENV))
             => envModule.nodeEnv = Stripped(processEnv.NODE_ENV)
       /\ LoadedNodeEnv

C18_Witness ==
    /\ processEnv.NODE_ENV = EnvText(<<" ", "s", "t", "a", "g", "i", "n", "g">>)
    /\ envModule.status = "failed"
    /\ envModule.error =
         "Invalid NODE_ENV: \"staging\". Must be one of: development, production, test"

\* C19: _getRequiredEnv(key, value) throws 'Missing required environment
\* variable: <key>' when value is undefined, empty or only white space, and
\* otherwise returns value exactly as given, white space included.
C19_RequiredEnvThrowsOrReturns ==
    lastCall.fn = "_getRequiredEnv" =>
       IF IsBlank(lastCall.value)
       THEN /\ lastCall.outcome.kind = "throw"
            /\ lastCall.outcome.val =
                  "Missing required environment variable: " \o lastCall.key
       ELSE /\ lastCall.outcome.kind = "return"
            /\ lastCall.outcome.val = Join(lastCall.value.val)

C19_Witness ==
    /\ lastCall.fn = "_getRequiredEnv"
    /\ lastCall.key = "API_SECRET"
    /\ lastCall.value = EnvText(<<" ", "M", "y", " ", "A", "p", "p", " ">>)
    /\ lastCall.outcome = Return(" My App ")

\* C20: a click on an example button of MimeLookupDemo or of ExtensionDemo
\* sets the input to the example and the result to a found value, the one
\* handleLookup yields for that text; this holds of every example of the
\* two lists.
C20_ExampleClickFindsResult ==
    /\ (activeTab = "lookup" /\ lastEvent = Event("MimeLookupDemo", "example")) =>
          /\ MimeLookupDemo.filePath \in MimeLookupExamples
          /\ MimeLookupDemo.result.kind = "string"
          /\ MimeLookupDemo.result = LookupMimeType(MimeLookupDemo.filePath)
          /\ \A example \in MimeLookupExamples : LookupMimeType(example).kind = "string"
    /\ (activeTab = "extension" /\ lastEvent = Event("ExtensionDemo", "example")) =>
          /\ ExtensionDemo.mimeType \in ExtensionExamples
          /\ ExtensionDemo.result.kind = "string"
          /\ ExtensionDemo.result = LookupExtension(ExtensionDemo.mimeType)
          /\ \A example \in ExtensionExamples : LookupExtension(example).kind = "string"

C20_Witness ==
    /\ activeTab = "extension"
    /\ lastEvent = Event("ExtensionDemo", "example")
    /\ ExtensionDemo.mimeType = <<"v", "i", "d", "e", "o", "/", "m", "p", "4">>
    /\ ExtensionDemo.result = Str("mp4")

\* C21: editing the input text of MimeLookupDemo or of ExtensionDemo leaves
\* the result as it was (and also the copied flag): the result of a mounted
\* component changes only in a step of its handleLookup or of an example
\* click, so that until the next lookup the result shown is that of the most
\* recent one, whatever the input field holds.
C21_EditKeepsResult ==
    [][ /\ lastEvent' = Event("MimeLookupDemo", "onChange") =>
              /\ MimeLookupDemo'.result = MimeLookupDemo.result
              /\ MimeLookupDemo'.copied = MimeLookupDemo.copied
        /\ lastEvent' = Event("ExtensionDemo", "onChange") =>
              /\ ExtensionDemo'.result = ExtensionDemo.result
              /\ ExtensionDemo'.copied = ExtensionDemo.copied
        /\ (MimeLookupDemo'.result # MimeLookupDemo.result /\ activeTab' = activeTab) =>
              lastEvent'.handler \in {"handleLookup", "example"}
        /\ (ExtensionDemo'.result # ExtensionDemo.result /\ activeTab' = activeTab) =>
              lastEvent'.handler \in {"handleLookup", "example"}
      ]_vars

\* After an edit the panel still shows the result of the lookup of '.js',
\* while the text now in the field would not be found.
C21_Witness ==
    /\ activeTab = "lookup"
    /\ lastEvent = Event("MimeLookupDemo", "onChange")
    /\ MimeLookupDemo.filePath = <<".", "j">>
    /\ MimeLookupDemo.result = Str(mimeTypesLite.JS)
    /\ LookupMimeType(MimeLookupDemo.filePath) = null

\* C22: a lookup that misses (its candidate is no key of the table it reads)
\* sets the result to null, the value before any lookup, and after it no
\* result panel is displayed, also when the lookup before it had succeeded.
C22_MissClearsResult ==
    /\ (AfterMimeLookup
          /\ Join(toLowerCase(SplitPop(MimeLookupDemo.filePath))) \notin ForwardKeys) =>
             /\ MimeLookupDemo.result = MimeLookupDemoInit.result
             /\ ~MimeLookupResultPanel
    /\ (AfterExtensionLookup
          /\ Join(toLowerCase(ExtensionDemo.mimeType)) \notin OwnKeys(mimeToExtension)) =>
             /\ ExtensionDemo.result = ExtensionDemoInit.result
             /\ ~ExtensionResultPanel

\* variant={activeTab === tab ? 'default' : 'ghost'} of the tab buttons.
ButtonVariant(tab) == IF activeTab = tab THEN "default" ELSE "ghost"

\* The tab buttons drawn highlighted, and the panels on the page
\* ({activeTab === tab && (...)}); after an error thrown in rendering the
\* page is gone and shows neither.
HighlightedButtons ==
    IF Crashed THEN {} ELSE {tab \in Tabs : ButtonVariant(tab) = "default"}

PanelsDisplayed ==
    IF Crashed THEN {} ELSE {tab \in Tabs : activeTab = tab}

\* C23: activeTab is always one of 'lookup', 'extension', 'browse'; it starts
\* as 'lookup'; a click on a tab button sets it to that tab whatever it was;
\* and in every state exactly one of the three panels is displayed and
\* exactly one tab button is highlighted, that of the displayed panel.
C23_OnePanelOneButton ==
    /\ activeTab \in Tabs
    /\ lastEvent = Event("DemoPage", "mount") => activeTab = "lookup"
    /\ Cardinality(PanelsDisplayed) = 1
    /\ Cardinality(HighlightedButtons) = 1
    /\ HighlightedButtons = PanelsDisplayed

\* C24: the input text, the result and the copied flag of MimeLookupDemo and
\* of ExtensionDemo do not survive a tab switch: every step that changes the
\* tab leaves both components in their initial state (empty input, result
\* null, copied false), a component whose tab is not the active one stays in
\* it (also when a reset timer of its earlier life fires), and so the
\* component starts again from it when the user returns to its tab.
C24_TabSwitchResetsState ==
    [][ /\ activeTab' # activeTab =>
              /\ MimeLookupDemo' = MimeLookupDemoInit
              /\ ExtensionDemo' = ExtensionDemoInit
        /\ activeTab' # "lookup" => MimeLookupDemo' = MimeLookupDemoInit
        /\ activeTab' # "extension" => ExtensionDemo' = ExtensionDemoInit
      ]_vars

\* Back in the 'lookup' tab after a result was copied there and the tab was
\* left: the timer of that copy is still pending.
C24_Witness ==
    /\ activeTab = "lookup"
    /\ lastEvent = Event("DemoPage", "setActiveTab")
    /\ MimeLookupDemo = MimeLookupDemoInit
    /\ clipboard = mimeTypesLite.JS
    /\ Len(timers) > 0
    /\ timers[1] = [component |-> "MimeLookupDemo", live |-> FALSE]

\* C25: in CodeBlock, InstallationTabs, MimeLookupDemo and ExtensionDemo a
\* copied flag that is true eventually is false again: every copy click
\* that sets it schedules a reset, and every scheduled reset fires.  In
\* MimeLookupDemo and ExtensionDemo a copy action with result null changes
\* nothing: not the flag, not the clipboard, and no reset is scheduled.
C25_CopiedEventuallyResets ==
    /\ CodeBlock.copied ~> ~CodeBlock.copied
    /\ InstallationTabs.copied ~> ~InstallationTabs.copied
    /\ MimeLookupDemo.copied ~> ~MimeLookupDemo.copied
    /\ ExtensionDemo.copied ~> ~ExtensionDemo.copied
    /\ [][ /\ (lastEvent' = Event("MimeLookupDemo", "handleCopy")
                 /\ MimeLookupDemo.result = null) =>
                    UNCHANGED <<MimeLookupDemo, clipboard, timers, ExtensionDemo,
                                activeTab, CodeBlock, InstallationTabs>>
           /\ (lastEvent' = Event("ExtensionDemo", "handleCopy")
                 /\ ExtensionDemo.result = null) =>
                    UNCHANGED <<ExtensionDemo, clipboard, timers, MimeLookupDemo,
                                activeTab, CodeBlock, InstallationTabs>>
           /\ (lastEvent'.handler = "handleCopy" /\ clipboard' # clipboard) =>
                    Len(timers') = Len(timers) + 1
         ]_vars

\* The flag of MimeLookupDemo is false again after the timer of a copy fired.
C25_Witness ==
    /\ activeTab = "lookup"
    /\ lastEvent = Event("MimeLookupDemo", "timeout")
    /\ MimeLookupDemo.result = Str(mimeTypesLite.JS)
    /\ ~MimeLookupDemo.copied
    /\ clipboard = mimeTypesLite.JS
    /\ timers = <<>>

\* A timer of the component is pending whose callback will still act.
PendingReset(component, queue) ==
    \E i \in 1..Len(queue) : queue[i].component = component /\ queue[i].live

\* C26: after a copy click the copied flag stays true until the reset timer
\* scheduled by that same click fires: when a timer resets the flag of a
\* component, no timer scheduled by a later click of that component is still
\* pending.
C26_ResetOnlyByOwnTimer ==
    [][ lastEvent'.handler = "timeout" =>
          /\ (CodeBlock.copied /\ ~CodeBlock'.copied)
                => ~PendingReset("CodeBlock", timers')
          /\ (InstallationTabs.copied /\ ~InstallationTabs'.copied)
                => ~PendingReset("InstallationTabs", timers')
          /\ (MimeLookupDemo.copied /\ ~MimeLookupDemo'.copied)
                => ~PendingReset("MimeLookupDemo", timers')
          /\ (ExtensionDemo.copied /\ ~ExtensionDemo'.copied)
                => ~PendingReset("ExtensionDemo", timers')
      ]_vars

====
